---- MODULE Spec2Model ----
(***************************************************************************)
(* simple-blog-api: registration, login, the bearer-token guard and the    *)
(* post handlers, as a state machine over the two Prisma tables.           *)
(*                                                                         *)
(* Every handler is an async function; it is cut at its awaits.  One       *)
(* action is the part of a handler that runs from one await's resolution   *)
(* to the next await (or to the response).  Requests of different          *)
(* processes interleave at these points, as they do on the Node event      *)
(* loop with the database answering in between.                            *)
(***************************************************************************)
EXTENDS Integers, Sequences, FiniteSets, TLC

VARIABLES users, posts, nextPostId, now, req

vars == <<users, posts, nextPostId, now, req>>

(***************************************************************************)
(* Bounds and input alphabets                                              *)
(***************************************************************************)
MaxTime == 1
MaxPosts == 2

\* expiresIn: '1h'; the clock ticks in hours
Hour == 1

\* bcrypt cost factor
SaltRounds == 10

\* Joi.string().min(6) of registerSchema
MinPasswordLength == 6

\* requests in flight at the same time
Procs == {"p1", "p2"}

\* an account id carried by a well-signed token whose row is not in the table
GhostId == 0

Emails == {"a@x.com", "b@x.com"}

None == <<>>
Some(v) == <<v>>
IsSome(o) == Len(o) = 1

Range(s) == {s[i] : i \in 1..Len(s)}

(***************************************************************************)
(* Strings                                                                 *)
(***************************************************************************)
\* String.prototype.length on the strings used as inputs
StrLen(s) ==
  CASE s = "" -> 0
    [] s = "123" -> 3
    [] s = "secret1" -> 7
    [] s = "hunter22" -> 8
    [] OTHER -> 12

\* Joi.string().email()
IsEmail(s) == s \in Emails

(***************************************************************************)
(* External primitives: bcrypt and jsonwebtoken                            *)
(***************************************************************************)
\* bcrypt.hash(password, 10): a one-way value that is not the plaintext
BcryptHash(password, rounds) == [alg |-> "bcrypt", cost |-> rounds, of |-> password]

\* bcrypt.compare(candidate, hash)
BcryptCompare(candidate, hash) == hash.alg = "bcrypt" /\ hash.of = candidate

\* a signer that sets an expiry beyond every clock value
GenerateTokenNoExpiry(userId, t) ==
  [kind |-> "jwt", userId |-> userId, iat |-> t, exp |-> MaxTime + Hour + 1, sig |-> "secret"]

\* a signer that leaves the account id out of the payload
GenerateTokenNoUserId(userId, t) ==
  [kind |-> "jwt", userId |-> GhostId, iat |-> t, exp |-> t + Hour, sig |-> "secret"]

\* jwt.sign({ userId }, JWT_SECRET, { expiresIn: '1h' }) at time t
generateToken(userId, t) ==
  [kind |-> "jwt", userId |-> userId, iat |-> t, exp |-> t + Hour, sig |-> "secret"]

\* one character of a header that is not part of a token
Ch(c) == [kind |-> c, userId |-> GhostId, iat |-> 0, exp |-> 0, sig |-> ""]
SP == Ch(" ")
Bearer == Ch("Bearer")
Basic == Ch("Basic")

\* a verifier that does not look at exp
JwtVerifiesAnyTime(token, t) ==
  /\ Len(token) = 1
  /\ token[1].kind = "jwt"
  /\ token[1].sig = "secret"

\* a verifier that still accepts a token at the instant it expires
JwtVerifiesAtExpiry(token, t) ==
  /\ Len(token) = 1
  /\ token[1].kind = "jwt"
  /\ token[1].sig = "secret"
  /\ t <= token[1].exp

\* jwt.verify(token, JWT_SECRET) returns the payload; JwtVerifies says it does not throw
JwtVerifies(token, t) ==
  /\ Len(token) = 1
  /\ token[1].kind = "jwt"
  /\ token[1].sig = "secret"
  /\ t < token[1].exp

JwtDecoded(token) == [userId |-> token[1].userId]

(***************************************************************************)
(* utils/validation.js: each schema returns the first error message or None*)
(***************************************************************************)
\* Joi.string().required() on one key
RequiredString(key, o) ==
  IF ~IsSome(o) THEN Some(key \o " is required")
  ELSE IF o[1] = "" THEN Some(key \o " is not allowed to be empty")
  ELSE None

\* a validator that reports the last error instead of the first
LastError(errs) ==
  LET bad == {i \in 1..Len(errs) : IsSome(errs[i])}
  IN IF bad = {} THEN None
     ELSE errs[CHOOSE i \in bad : \A j \in bad : i >= j]

FirstError(errs) ==
  LET bad == {i \in 1..Len(errs) : IsSome(errs[i])}
  IN IF bad = {} THEN None
     ELSE errs[CHOOSE i \in bad : \A j \in bad : i <= j]

EmailRule(o) ==
  IF IsSome(RequiredString("email", o)) THEN RequiredString("email", o)
  ELSE IF ~IsEmail(o[1]) THEN Some("email must be a valid email")
  ELSE None

RegisterPasswordRule(o) ==
  IF IsSome(RequiredString("password", o)) THEN RequiredString("password", o)
  ELSE IF StrLen(o[1]) < MinPasswordLength
       THEN Some("password length must be at least 6 characters long")
  ELSE None

registerSchema(body) == FirstError(<<EmailRule(body.email), RegisterPasswordRule(body.password)>>)

loginSchema(body) == FirstError(<<EmailRule(body.email), RequiredString("password", body.password)>>)

\* an optional string key that may be ''
OptionalStringLax(key, o) == None

\* Joi.string() on an optional key: absent passes, '' does not
OptionalString(key, o) ==
  IF IsSome(o) /\ o[1] = "" THEN Some(key \o " is not allowed to be empty") ELSE None

\* Joi.string().allow('')
OptionalStringOrEmpty(key, o) == None

\* an object schema that lets undeclared keys through
UnknownKeyAllowed(key, o) == None

\* a key the object schema does not declare
UnknownKey(key, o) == IF IsSome(o) THEN Some(key \o " is not allowed") ELSE None

KeyCount(body) ==
  (IF IsSome(body.title) THEN 1 ELSE 0) + (IF IsSome(body.content) THEN 1 ELSE 0)
    + (IF IsSome(body.authorId) THEN 1 ELSE 0)

\* Joi.object(...).min(1)
MinKeys(body, n) == IF KeyCount(body) < n THEN Some("value must have at least 1 key") ELSE None

postSchema(body) ==
  FirstError(<<RequiredString("title", body.title), OptionalStringOrEmpty("content", body.content),
               UnknownKey("authorId", body.authorId)>>)

\* the update schema without .min(1)
UpdatePostSchemaNoMin(body) ==
  FirstError(<<OptionalString("title", body.title), OptionalStringOrEmpty("content", body.content),
               UnknownKey("authorId", body.authorId)>>)

updatePostSchema(body) ==
  FirstError(<<OptionalString("title", body.title), OptionalStringOrEmpty("content", body.content),
               UnknownKey("authorId", body.authorId), MinKeys(body, 1)>>)

(***************************************************************************)
(* Requests and responses                                                  *)
(***************************************************************************)
NoHeader == None
NoBody == [email |-> None, password |-> None]
NoPostBody == [title |-> None, content |-> None, authorId |-> None]

Idle ==
  [op |-> "none", pc |-> "idle", authorization |-> NoHeader, body |-> NoBody,
   postBody |-> NoPostBody, id |-> 0, user |-> None, local |-> None,
   out |-> <<>>, nextCalls |-> 0, log |-> <<>>]

\* res.status(code).json({status, message, data})
Json(code, status, message, data) ==
  [code |-> code, status |-> status, message |-> message, data |-> data]

\* an error body that also carries the cause
ErrorJsonLeaky(code, message) ==
  Json(code, "error", Some(message), Some([cause |-> "error.message"]))

ErrorJson(code, message) == Json(code, "error", Some(message), None)

\* a handler that sends its response twice
RespondTwice(r, response) ==
  [r EXCEPT !.pc = "done", !.out = Append(Append(@, response), response)]

Respond(r, response) == [r EXCEPT !.pc = "done", !.out = Append(@, response)]

\* one call of a collaborator, with how it ended: "none" (it returned), "fault" (the
\* database or the primitive failed), "P2002" (unique index), "P2025" (no such row),
\* "P2003" (foreign key), "jwt" (verification threw)
Call(r, name, err) == [r EXCEPT !.log = Append(@, [call |-> name, err |-> err])]

\* a promise that resolves or rejects
Outcome(ok) == IF ok THEN "none" ELSE "fault"

Free(p) == req[p].pc \in {"idle", "done"}

Calls(r) == {e.call : e \in Range(r.log)}
Faulted(r) == \E e \in Range(r.log) : e.err = "fault"
Answered(r) == r.pc = "done" /\ Len(r.out) >= 1
Code(r) == r.out[Len(r.out)].code
Message(r) == r.out[Len(r.out)].message

(***************************************************************************)
(* The tables                                                              *)
(***************************************************************************)
\* a lookup by email that never finds a row
UserByEmailNone(email) == {}

\* prisma.user.findUnique({ where: { email } }): the set of matching rows, empty for null
UserByEmail(email) == {u \in users : u.email = email}

\* a lookup by id that ignores the id
UserByIdAny(id) == users

\* prisma.user.findUnique({ where: { id } })
UserById(id) == {u \in users : u.id = id}

\* a lookup of a post that ignores the id
PostByIdAny(id) == posts

\* prisma.posts.findUnique({ where: { id } })
PostById(id) == {q \in posts : q.id = id}
NewUserId == Cardinality(users) + 1

TypeOK ==
  /\ now \in 0..MaxTime
  /\ nextPostId \in 1..(MaxPosts + 1)
  /\ \A u \in users : u.email \in Emails
  /\ \A p \in Procs : req[p].pc \in
       {"idle", "findUnique", "hash", "create", "compare", "guardFind", "handler",
        "postFind", "postWrite", "findMany", "done"}

Init ==
  /\ users = {}
  /\ posts = {}
  /\ nextPostId = 1
  /\ now = 0
  /\ req = [p \in Procs |-> Idle]

(***************************************************************************)
(* auth/authController.js: register                                        *)
(***************************************************************************)
AuthBody(email, password) == [email |-> email, password |-> password]

RegisterBodies ==
  {AuthBody(Some(e), Some("secret1")) : e \in Emails} \cup
  {AuthBody(Some("not-an-email"), Some("secret1")), AuthBody(Some("a@x.com"), Some("123")),
   AuthBody(None, Some("secret1")), AuthBody(Some("a@x.com"), None)}

\* validation, then the existence query is issued
Register(p, body) ==
  /\ Free(p)
  /\ LET r0 == [Idle EXCEPT !.op = "register", !.body = body]
         r == Call(r0, "registerSchema.validate", "none")
         error == registerSchema(body)
     IN req' = [req EXCEPT ![p] =
          IF IsSome(error) THEN Respond(r, ErrorJson(400, error[1]))
          ELSE [r EXCEPT !.pc = "findUnique"]]
  /\ UNCHANGED <<users, posts, nextPostId, now>>

\* prisma.user.findUnique({ where: { email } }) resolves or rejects
RegisterFindUnique(p) ==
  /\ req[p].op = "register" /\ req[p].pc = "findUnique"
  /\ \E ok \in BOOLEAN :
       LET r == Call(req[p], "user.findUnique", Outcome(ok))
           existingUser == UserByEmail(req[p].body.email[1])
       IN req' = [req EXCEPT ![p] =
            IF ~ok THEN Respond(r, ErrorJson(500, "Internal server error"))
            ELSE IF existingUser # {} THEN Respond(r, ErrorJson(409, "Email already registered"))
            ELSE [r EXCEPT !.pc = "hash"]]
  /\ UNCHANGED <<users, posts, nextPostId, now>>

\* bcrypt.hash(password, 10) resolves or rejects
RegisterHash(p) ==
  /\ req[p].op = "register" /\ req[p].pc = "hash"
  /\ \E ok \in BOOLEAN :
       LET r == Call(req[p], "bcrypt.hash", Outcome(ok))
           hashedPassword == BcryptHash(req[p].body.password[1], SaltRounds)
       IN req' = [req EXCEPT ![p] =
            IF ~ok THEN Respond(r, ErrorJson(500, "Internal server error"))
            ELSE [r EXCEPT !.pc = "create", !.local = Some(hashedPassword)]]
  /\ UNCHANGED <<users, posts, nextPostId, now>>

\* the unique index on users.email (schema.prisma: email String @unique)
EmailUnique(email) == \A u \in users : u.email # email

\* a sign-up that stores the account and then reports a failure
RegisterCreateLost(p) ==
  /\ req[p].op = "register" /\ req[p].pc = "create"
  /\ \E ok \in BOOLEAN :
       LET email == req[p].body.email[1]
           inserted == EmailUnique(email)
           r == Call(req[p], "user.create",
                     IF ~ok THEN "fault" ELSE IF ~EmailUnique(email) THEN "P2002" ELSE "none")
           row == [id |-> NewUserId, email |-> email, password |-> req[p].local[1],
                   createdAt |-> now]
           user == [id |-> row.id, email |-> row.email, createdAt |-> row.createdAt]
       IN /\ users' = IF inserted THEN users \cup {row} ELSE users
          /\ req' = [req EXCEPT ![p] =
               IF ~(ok /\ inserted) THEN Respond(r, ErrorJson(500, "Internal server error"))
               ELSE Respond(r, Json(201, "success", Some("User registered successfully"),
                                    Some([user |-> user])))]
  /\ UNCHANGED <<posts, nextPostId, now>>

\* prisma.user.create({ data, select: { id, email, createdAt } })
RegisterCreate(p) ==
  /\ req[p].op = "register" /\ req[p].pc = "create"
  /\ \E ok \in BOOLEAN :
       LET email == req[p].body.email[1]
           inserted == ok /\ EmailUnique(email)
           r == Call(req[p], "user.create",
                     IF ~ok THEN "fault" ELSE IF ~EmailUnique(email) THEN "P2002" ELSE "none")
           row == [id |-> NewUserId, email |-> email, password |-> req[p].local[1],
                   createdAt |-> now]
           user == [id |-> row.id, email |-> row.email, createdAt |-> row.createdAt]
       IN /\ users' = IF inserted THEN users \cup {row} ELSE users
          /\ req' = [req EXCEPT ![p] =
               IF ~inserted THEN Respond(r, ErrorJson(500, "Internal server error"))
               ELSE Respond(r, Json(201, "success", Some("User registered successfully"),
                                    Some([user |-> user])))]
  /\ UNCHANGED <<posts, nextPostId, now>>

(***************************************************************************)
(* auth/authController.js: login                                           *)
(***************************************************************************)
\* an answer that tells the caller the account does not exist
LoginNotFoundTelling == ErrorJson(404, "User not found")

\* the answer when no account has the email
LoginNotFound == ErrorJson(401, "Invalid email or password")

\* the answer when the password does not match
LoginWrongPassword == ErrorJson(401, "Invalid email or password")

LoginBodies ==
  {AuthBody(Some(e), Some(w)) : e \in Emails, w \in {"secret1", "123"}} \cup
  {AuthBody(Some("not-an-email"), Some("secret1")), AuthBody(Some("a@x.com"), Some("")),
   AuthBody(None, None)}

Login(p, body) ==
  /\ Free(p)
  /\ LET r0 == [Idle EXCEPT !.op = "login", !.body = body]
         r == Call(r0, "loginSchema.validate", "none")
         error == loginSchema(body)
     IN req' = [req EXCEPT ![p] =
          IF IsSome(error) THEN Respond(r, ErrorJson(400, error[1]))
          ELSE [r EXCEPT !.pc = "findUnique"]]
  /\ UNCHANGED <<users, posts, nextPostId, now>>

\* prisma.user.findUnique({ where: { email } })
LoginFindUnique(p) ==
  /\ req[p].op = "login" /\ req[p].pc = "findUnique"
  /\ \E ok \in BOOLEAN :
       LET r == Call(req[p], "user.findUnique", Outcome(ok))
           user == UserByEmail(req[p].body.email[1])
       IN req' = [req EXCEPT ![p] =
            IF ~ok THEN Respond(r, ErrorJson(500, "Internal server error"))
            ELSE IF user = {} THEN Respond(r, LoginNotFound)
            ELSE [r EXCEPT !.pc = "compare", !.local = Some(CHOOSE u \in user : TRUE)]]
  /\ UNCHANGED <<users, posts, nextPostId, now>>

\* bcrypt.compare resolves or rejects; on a match jwt.sign returns or throws
LoginCompare(p) ==
  /\ req[p].op = "login" /\ req[p].pc = "compare"
  /\ \E ok \in BOOLEAN, signs \in BOOLEAN :
       LET user == req[p].local[1]
           r == Call(req[p], "bcrypt.compare", Outcome(ok))
           isValidPassword == BcryptCompare(req[p].body.password[1], user.password)
           token == generateToken(user.id, now)
       IN req' = [req EXCEPT ![p] =
            IF ~ok THEN Respond(r, ErrorJson(500, "Internal server error"))
            ELSE IF ~isValidPassword
              THEN Respond(r, LoginWrongPassword)
            ELSE IF ~signs
              THEN Respond(Call(r, "jwt.sign", "fault"), ErrorJson(500, "Internal server error"))
            ELSE Respond(Call(r, "jwt.sign", "none"),
                         Json(200, "success", Some("Login successful"),
                              Some([token |-> token,
                                    user |-> [id |-> user.id, email |-> user.email]])))]
  /\ UNCHANGED <<users, posts, nextPostId, now>>

(***************************************************************************)
(* middleware/auth.js: authenticateToken                                   *)
(***************************************************************************)
FirstSpace(s) == CHOOSE i \in 1..Len(s) : s[i] = SP /\ \A j \in 1..(i - 1) : s[j] # SP

\* String.prototype.split(' ')
RECURSIVE Split(_)
Split(s) ==
  IF \A i \in 1..Len(s) : s[i] # SP THEN <<s>>
  ELSE <<SubSeq(s, 1, FirstSpace(s) - 1)>> \o Split(SubSeq(s, FirstSpace(s) + 1, Len(s)))

\* authHeader && authHeader.split(' ')[1]: None is undefined, Some(<<>>) is ''
Token(authHeader) ==
  IF ~IsSome(authHeader) THEN None
  ELSE IF authHeader[1] = <<>> THEN Some(<<>>)
  ELSE IF Len(Split(authHeader[1])) >= 2 THEN Some(Split(authHeader[1])[2])
  ELSE None

\* !token
Falsy(token) == ~IsSome(token) \/ token[1] = <<>>

\* a projection that keeps the whole row
WholeRow(u) == u

\* a projection that gives the id of no account
IdEmailGhost(u) == [id |-> GhostId, email |-> u.email]

\* select: { id: true, email: true }
IdEmail(u) == [id |-> u.id, email |-> u.email]

\* tokens a client can hold: what login can have issued for an account since it exists
IssuableTokens == UNION {{generateToken(u.id, t) : t \in u.createdAt..now} : u \in users}

\* the same with a signature made with another secret
Forged(t) == [t EXCEPT !.sig = "other"]

\* a well-signed token whose account id has no row
GhostToken == generateToken(GhostId, now)

Headers ==
  {None, Some(<<>>), Some(<<Bearer>>), Some(<<Bearer, SP>>), Some(<<GhostToken>>),
   Some(<<Bearer, SP, SP, GhostToken>>), Some(<<Bearer, SP, Basic>>),
   Some(<<Bearer, SP, GhostToken>>), Some(<<Bearer, SP, Forged(GhostToken)>>)}
  \cup {Some(<<Bearer, SP, t>>) : t \in IssuableTokens}
  \cup {Some(<<Basic, SP, t>>) : t \in IssuableTokens}

Routes == {"createPost", "updatePost", "deletePost"}

\* the synchronous part: header parsing and jwt.verify, then the account query is issued
AuthenticateToken(p, route, authorization, postBody, id) ==
  /\ Free(p)
  /\ LET r == [Idle EXCEPT !.op = route, !.authorization = authorization,
                           !.postBody = postBody, !.id = id]
         token == Token(authorization)
         verified == Call(r, "jwt.verify", IF JwtVerifies(token[1], now) THEN "none" ELSE "jwt")
     IN req' = [req EXCEPT ![p] =
          IF Falsy(token) THEN Respond(r, ErrorJson(401, "Access token required"))
          ELSE IF ~JwtVerifies(token[1], now)
            THEN Respond(verified, ErrorJson(403, "Invalid or expired token"))
          ELSE [verified EXCEPT !.pc = "guardFind", !.local = Some(JwtDecoded(token[1]))]]
  /\ UNCHANGED <<users, posts, nextPostId, now>>

\* a guard that answers and calls next() as well
AttachAndAnswer(r, user) ==
  [Respond(r, Json(200, "success", None, None)) EXCEPT
     !.user = Some(IdEmail(user)), !.nextCalls = @ + 1]

\* a guard that calls next() without setting req.user
AttachNothing(r, user) ==
  [r EXCEPT !.nextCalls = @ + 1,
            !.pc = IF r.op = "authenticateToken" THEN "done" ELSE "handler"]

\* req.user = user; next()
Attach(r, user) ==
  [r EXCEPT !.user = Some(IdEmail(user)), !.nextCalls = @ + 1,
            !.pc = IF r.op = "authenticateToken" THEN "done" ELSE "handler"]

\* prisma.user.findUnique({ where: { id: decoded.userId }, select }) resolves or rejects
AuthenticateTokenFindUnique(p) ==
  /\ req[p].pc = "guardFind"
  /\ \E ok \in BOOLEAN :
       LET r == Call(req[p], "user.findUnique", Outcome(ok))
           user == UserById(req[p].local[1].userId)
       IN req' = [req EXCEPT ![p] =
            IF ~ok THEN Respond(r, ErrorJson(403, "Invalid or expired token"))
            ELSE IF user = {} THEN Respond(r, ErrorJson(401, "Invalid token"))
            ELSE Attach(r, CHOOSE u \in user : TRUE)]
  /\ UNCHANGED <<users, posts, nextPostId, now>>

(***************************************************************************)
(* posts/postController.js                                                 *)
(***************************************************************************)
PostBody(title, content, authorId) == [title |-> title, content |-> content, authorId |-> authorId]

\* include: { author: { select: { id: true, email: true } } }
WithAuthor(row) ==
  [id |-> row.id, title |-> row.title, content |-> row.content, authorId |-> row.authorId,
   createdAt |-> row.createdAt,
   author |-> IdEmail(CHOOSE u \in users : u.id = row.authorId)]

\* the foreign key posts.authorId -> users.id
AuthorExists(authorId) == \E u \in users : u.id = authorId

\* oldest first
IsAscending(s) == \A i \in 1..Len(s), j \in 1..Len(s) : i < j => s[i].createdAt <= s[j].createdAt

\* orderBy: { createdAt: 'desc' }
IsDescending(s) == \A i \in 1..Len(s), j \in 1..Len(s) : i < j => s[i].createdAt >= s[j].createdAt

Listings(rows) ==
  {s \in [1..Cardinality(rows) -> rows] : Range(s) = rows /\ IsDescending(s)}

\* GET /posts
GetAllPosts(p) ==
  /\ Free(p)
  /\ req' = [req EXCEPT ![p] = [Idle EXCEPT !.op = "getAllPosts", !.pc = "findMany"]]
  /\ UNCHANGED <<users, posts, nextPostId, now>>

\* prisma.posts.findMany({ include, orderBy }) resolves or rejects
GetAllPostsFindMany(p) ==
  /\ req[p].op = "getAllPosts" /\ req[p].pc = "findMany"
  /\ \E ok \in BOOLEAN, listing \in Listings(posts) :
       LET r == Call(req[p], "posts.findMany", Outcome(ok))
           found == [i \in 1..Len(listing) |-> WithAuthor(listing[i])]
       IN req' = [req EXCEPT ![p] =
            IF ~ok THEN Respond(r, ErrorJson(500, "Internal server error"))
            ELSE Respond(r, Json(200, "success", None, Some([posts |-> found])))]
  /\ UNCHANGED <<users, posts, nextPostId, now>>

\* GET /posts/:id
GetPostById(p, id) ==
  /\ Free(p)
  /\ req' = [req EXCEPT ![p] = [Idle EXCEPT !.op = "getPostById", !.id = id, !.pc = "postFind"]]
  /\ UNCHANGED <<users, posts, nextPostId, now>>

\* prisma.posts.findUnique({ where: { id }, include })
GetPostByIdFindUnique(p) ==
  /\ req[p].op = "getPostById" /\ req[p].pc = "postFind"
  /\ \E ok \in BOOLEAN :
       LET r == Call(req[p], "posts.findUnique", Outcome(ok))
           post == PostById(req[p].id)
       IN req' = [req EXCEPT ![p] =
            IF ~ok THEN Respond(r, ErrorJson(500, "Internal server error"))
            ELSE IF post = {} THEN Respond(r, ErrorJson(404, "Post not found"))
            ELSE Respond(r, Json(200, "success", None,
                                 Some([post |-> WithAuthor(CHOOSE q \in post : TRUE)])))]
  /\ UNCHANGED <<users, posts, nextPostId, now>>

\* POST /posts after next(): validation, req.user.id, then the insert is issued
CreatePost(p) ==
  /\ req[p].op = "createPost" /\ req[p].pc = "handler"
  /\ LET r == Call(req[p], "postSchema.validate", "none")
         error == postSchema(req[p].postBody)
     IN req' = [req EXCEPT ![p] =
          IF IsSome(error) THEN Respond(r, ErrorJson(400, error[1]))
          ELSE IF ~IsSome(req[p].user) THEN Respond(r, ErrorJson(500, "Internal server error"))
          ELSE [r EXCEPT !.pc = "postWrite"]]
  /\ UNCHANGED <<users, posts, nextPostId, now>>

\* a default content that is not the empty string
ContentOrPlaceholder(body) == IF IsSome(body.content) THEN body.content[1] ELSE "c1"

\* const { title, content = '' } = req.body
ContentOrDefault(body) == IF IsSome(body.content) THEN body.content[1] ELSE ""

\* a create that stores the post whenever the author exists and reports a failure
CreatePostCreateLost(p) ==
  /\ req[p].op = "createPost" /\ req[p].pc = "postWrite"
  /\ nextPostId <= MaxPosts
  /\ \E ok \in BOOLEAN :
       LET authorId == req[p].user[1].id
           inserted == AuthorExists(authorId)
           r == Call(req[p], "posts.create",
                     IF ~ok THEN "fault" ELSE IF ~AuthorExists(authorId) THEN "P2003" ELSE "none")
           row == [id |-> nextPostId, title |-> req[p].postBody.title[1],
                   content |-> ContentOrDefault(req[p].postBody), authorId |-> authorId,
                   createdAt |-> now]
       IN /\ posts' = IF inserted THEN posts \cup {row} ELSE posts
          /\ nextPostId' = IF inserted THEN nextPostId + 1 ELSE nextPostId
          /\ req' = [req EXCEPT ![p] =
               IF ~(ok /\ inserted) THEN Respond(r, ErrorJson(500, "Internal server error"))
               ELSE Respond(r, Json(201, "success", Some("Post created successfully"),
                                    Some([post |-> WithAuthor(row)])))]
  /\ UNCHANGED <<users, now>>

\* prisma.posts.create({ data: { title, content, authorId }, include })
CreatePostCreate(p) ==
  /\ req[p].op = "createPost" /\ req[p].pc = "postWrite"
  /\ nextPostId <= MaxPosts
  /\ \E ok \in BOOLEAN :
       LET authorId == req[p].user[1].id
           inserted == ok /\ AuthorExists(authorId)
           r == Call(req[p], "posts.create",
                     IF ~ok THEN "fault" ELSE IF ~AuthorExists(authorId) THEN "P2003" ELSE "none")
           row == [id |-> nextPostId, title |-> req[p].postBody.title[1],
                   content |-> ContentOrDefault(req[p].postBody), authorId |-> authorId,
                   createdAt |-> now]
       IN /\ posts' = IF inserted THEN posts \cup {row} ELSE posts
          /\ nextPostId' = IF inserted THEN nextPostId + 1 ELSE nextPostId
          /\ req' = [req EXCEPT ![p] =
               IF ~inserted THEN Respond(r, ErrorJson(500, "Internal server error"))
               ELSE Respond(r, Json(201, "success", Some("Post created successfully"),
                                    Some([post |-> WithAuthor(row)])))]
  /\ UNCHANGED <<users, now>>

\* PUT /posts/:id after next(): validation, req.user.id, then the read is issued
UpdatePost(p) ==
  /\ req[p].op = "updatePost" /\ req[p].pc = "handler"
  /\ LET r == Call(req[p], "updatePostSchema.validate", "none")
         error == updatePostSchema(req[p].postBody)
     IN req' = [req EXCEPT ![p] =
          IF IsSome(error) THEN Respond(r, ErrorJson(400, error[1]))
          ELSE IF ~IsSome(req[p].user) THEN Respond(r, ErrorJson(500, "Internal server error"))
          ELSE [r EXCEPT !.pc = "postFind"]]
  /\ UNCHANGED <<users, posts, nextPostId, now>>

\* an ownership test that lets everyone through
NotOwnerNever(existingPost, userId) == FALSE

\* existingPost.authorId !== userId
NotOwner(existingPost, userId) == existingPost.authorId # userId

\* prisma.posts.findUnique({ where: { id } }), then the existence and ownership checks
UpdatePostFindUnique(p) ==
  /\ req[p].op = "updatePost" /\ req[p].pc = "postFind"
  /\ \E ok \in BOOLEAN :
       LET r == Call(req[p], "posts.findUnique", Outcome(ok))
           existingPost == PostById(req[p].id)
       IN req' = [req EXCEPT ![p] =
            IF ~ok THEN Respond(r, ErrorJson(500, "Internal server error"))
            ELSE IF existingPost = {} THEN Respond(r, ErrorJson(404, "Post not found"))
            ELSE IF NotOwner(CHOOSE q \in existingPost : TRUE, req[p].user[1].id)
              THEN Respond(r, ErrorJson(403, "You can only update your own posts"))
            ELSE [r EXCEPT !.pc = "postWrite"]]
  /\ UNCHANGED <<users, posts, nextPostId, now>>

\* an update that replaces the whole row content: a field not provided is reset
Replaced(row, body) ==
  [row EXCEPT !.title = IF IsSome(body.title) THEN body.title[1] ELSE "",
              !.content = IF IsSome(body.content) THEN body.content[1] ELSE ""]

\* data: req.body applied to one row: every key of the body is written
Updated(row, body) ==
  [row EXCEPT !.title = IF IsSome(body.title) THEN body.title[1] ELSE @,
              !.content = IF IsSome(body.content) THEN body.content[1] ELSE @,
              !.authorId = IF IsSome(body.authorId) THEN body.authorId[1] ELSE @]

\* an update that refuses to write over the finished update of another request
UpdatePostUpdateVersioned(p) ==
  /\ req[p].op = "updatePost" /\ req[p].pc = "postWrite"
  /\ \E ok \in BOOLEAN :
       LET target == PostById(req[p].id)
           stale == \E q \in Procs \ {p} :
                      /\ req[q].op = "updatePost" /\ req[q].id = req[p].id
                      /\ Answered(req[q]) /\ Code(req[q]) = 200
           written == ok /\ target # {} /\ ~stale
           r == Call(req[p], "posts.update",
                     IF ~ok THEN "fault" ELSE IF target = {} \/ stale THEN "P2025" ELSE "none")
           row == Updated(CHOOSE q \in target : TRUE, req[p].postBody)
       IN /\ posts' = IF written THEN (posts \ target) \cup {row} ELSE posts
          /\ req' = [req EXCEPT ![p] =
               IF ~written THEN Respond(r, ErrorJson(500, "Internal server error"))
               ELSE Respond(r, Json(200, "success", Some("Post updated successfully"),
                                    Some([post |-> WithAuthor(row)])))]
  /\ UNCHANGED <<users, nextPostId, now>>

\* prisma.posts.update({ where: { id }, data: req.body, include }); no row: it rejects
UpdatePostUpdate(p) ==
  /\ req[p].op = "updatePost" /\ req[p].pc = "postWrite"
  /\ \E ok \in BOOLEAN :
       LET target == PostById(req[p].id)
           written == ok /\ target # {}
           r == Call(req[p], "posts.update",
                     IF ~ok THEN "fault" ELSE IF target = {} THEN "P2025" ELSE "none")
           row == Updated(CHOOSE q \in target : TRUE, req[p].postBody)
       IN /\ posts' = IF written THEN (posts \ target) \cup {row} ELSE posts
          /\ req' = [req EXCEPT ![p] =
               IF ~written THEN Respond(r, ErrorJson(500, "Internal server error"))
               ELSE Respond(r, Json(200, "success", Some("Post updated successfully"),
                                    Some([post |-> WithAuthor(row)])))]
  /\ UNCHANGED <<users, nextPostId, now>>

\* a handler that turns a missing req.user into a 401
DeletePostUnauthorized(p) ==
  /\ req[p].op = "deletePost" /\ req[p].pc = "handler"
  /\ req' = [req EXCEPT ![p] =
       IF ~IsSome(req[p].user) THEN Respond(req[p], ErrorJson(401, "Access token required"))
       ELSE [req[p] EXCEPT !.pc = "postFind"]]
  /\ UNCHANGED <<users, posts, nextPostId, now>>

\* DELETE /posts/:id after next(): req.user.id, then the read is issued
DeletePost(p) ==
  /\ req[p].op = "deletePost" /\ req[p].pc = "handler"
  /\ req' = [req EXCEPT ![p] =
       IF ~IsSome(req[p].user) THEN Respond(req[p], ErrorJson(500, "Internal server error"))
       ELSE [req[p] EXCEPT !.pc = "postFind"]]
  /\ UNCHANGED <<users, posts, nextPostId, now>>

\* prisma.posts.findUnique({ where: { id } }), then the existence and ownership checks
DeletePostFindUnique(p) ==
  /\ req[p].op = "deletePost" /\ req[p].pc = "postFind"
  /\ \E ok \in BOOLEAN :
       LET r == Call(req[p], "posts.findUnique", Outcome(ok))
           existingPost == PostById(req[p].id)
       IN req' = [req EXCEPT ![p] =
            IF ~ok THEN Respond(r, ErrorJson(500, "Internal server error"))
            ELSE IF existingPost = {} THEN Respond(r, ErrorJson(404, "Post not found"))
            ELSE IF NotOwner(CHOOSE q \in existingPost : TRUE, req[p].user[1].id)
              THEN Respond(r, ErrorJson(403, "You can only delete your own posts"))
            ELSE [r EXCEPT !.pc = "postWrite"]]
  /\ UNCHANGED <<users, posts, nextPostId, now>>

\* a delete that answers 200 and leaves the row in the table
DeletePostDeleteKeeps(p) ==
  /\ req[p].op = "deletePost" /\ req[p].pc = "postWrite"
  /\ \E ok \in BOOLEAN :
       LET r == Call(req[p], "posts.delete", Outcome(ok))
       IN req' = [req EXCEPT ![p] =
            IF ~ok THEN Respond(r, ErrorJson(500, "Internal server error"))
            ELSE Respond(r, Json(200, "success", Some("Post deleted successfully"), None))]
  /\ UNCHANGED <<users, posts, nextPostId, now>>

\* a delete that succeeds when no row has the id, as deleteMany does
DeletePostDeleteMany(p) ==
  /\ req[p].op = "deletePost" /\ req[p].pc = "postWrite"
  /\ \E ok \in BOOLEAN :
       LET target == PostById(req[p].id)
           r == Call(req[p], "posts.delete", Outcome(ok))
       IN /\ posts' = IF ok THEN posts \ target ELSE posts
          /\ req' = [req EXCEPT ![p] =
               IF ~ok THEN Respond(r, ErrorJson(500, "Internal server error"))
               ELSE Respond(r, Json(200, "success", Some("Post deleted successfully"), None))]
  /\ UNCHANGED <<users, nextPostId, now>>

\* prisma.posts.delete({ where: { id } }); no row: it rejects
DeletePostDelete(p) ==
  /\ req[p].op = "deletePost" /\ req[p].pc = "postWrite"
  /\ \E ok \in BOOLEAN :
       LET target == PostById(req[p].id)
           removed == ok /\ target # {}
           r == Call(req[p], "posts.delete",
                     IF ~ok THEN "fault" ELSE IF target = {} THEN "P2025" ELSE "none")
       IN /\ posts' = IF removed THEN posts \ target ELSE posts
          /\ req' = [req EXCEPT ![p] =
               IF ~removed THEN Respond(r, ErrorJson(500, "Internal server error"))
               ELSE Respond(r, Json(200, "success", Some("Post deleted successfully"), None))]
  /\ UNCHANGED <<users, nextPostId, now>>

\* the wall clock
Tick ==
  /\ now < MaxTime
  /\ now' = now + 1
  /\ UNCHANGED <<users, posts, nextPostId, req>>

NextAuth ==
  \/ \E p \in Procs, body \in RegisterBodies : Register(p, body)
  \/ \E p \in Procs : RegisterFindUnique(p)
  \/ \E p \in Procs : RegisterHash(p)
  \/ \E p \in Procs : RegisterCreate(p)
  \/ \E p \in Procs, body \in LoginBodies : Login(p, body)
  \/ \E p \in Procs : LoginFindUnique(p)
  \/ \E p \in Procs : LoginCompare(p)
  \/ Tick

SpecAuth == Init /\ [][NextAuth]_vars

\* the guard called on its own, as middleware in front of nothing, after sign-up and login
SessionBodies == {AuthBody(Some(e), Some("secret1")) : e \in Emails}

NextGuard ==
  \/ \E p \in Procs, body \in SessionBodies : Register(p, body)
  \/ \E p \in Procs : RegisterFindUnique(p)
  \/ \E p \in Procs : RegisterHash(p)
  \/ \E p \in Procs : RegisterCreate(p)
  \/ \E p \in Procs, body \in SessionBodies : Login(p, body)
  \/ \E p \in Procs : LoginFindUnique(p)
  \/ \E p \in Procs : LoginCompare(p)
  \/ \E p \in Procs, authorization \in Headers :
       AuthenticateToken(p, "authenticateToken", authorization, NoPostBody, 0)
  \/ \E p \in Procs : AuthenticateTokenFindUnique(p)
  \/ Tick

SpecGuard == Init /\ [][NextGuard]_vars
(***************************************************************************)
(* The post routes behind the guard, with two accounts already signed up   *)
(***************************************************************************)
Account(id, email) ==
  [id |-> id, email |-> email, password |-> BcryptHash("secret1", SaltRounds), createdAt |-> 0]

InitPosts ==
  /\ users = {Account(1, "a@x.com"), Account(2, "b@x.com")}
  /\ posts = {}
  /\ nextPostId = 1
  /\ now = 0
  /\ req = [p \in Procs |-> Idle]

\* sessions of two signed-up accounts: logins, presentations of the tokens they can hold,
\* of tampered copies and of no token, and public listings, by two processes in any order,
\* while the clock advances
SessionHeaders ==
  {None} \cup {Some(<<Bearer, SP, t>>) : t \in IssuableTokens}
         \cup {Some(<<Bearer, SP, Forged(t)>>) : t \in IssuableTokens}

NextSession ==
  \/ \E p \in Procs, body \in SessionBodies : Login(p, body)
  \/ \E p \in Procs : LoginFindUnique(p)
  \/ \E p \in Procs : LoginCompare(p)
  \/ \E p \in Procs, authorization \in SessionHeaders :
       AuthenticateToken(p, "authenticateToken", authorization, NoPostBody, 0)
  \/ \E p \in Procs : AuthenticateTokenFindUnique(p)
  \/ \E p \in Procs : GetAllPosts(p)
  \/ \E p \in Procs : GetAllPostsFindMany(p)
  \/ Tick

SpecSession == InitPosts /\ [][NextSession]_vars

PostHeaders == {None} \cup {Some(<<Bearer, SP, generateToken(u.id, 0)>>) : u \in users}

CreateBodies == {PostBody(Some("t1"), None, None), PostBody(None, None, None)}

UpdateBodies == {PostBody(Some("t2"), None, None), PostBody(None, None, None)}

PostIds == {1}

NextPosts ==
  \/ \E p \in Procs, authorization \in PostHeaders, body \in CreateBodies :
       AuthenticateToken(p, "createPost", authorization, body, 0)
  \/ \E p \in Procs, authorization \in PostHeaders, body \in UpdateBodies, id \in PostIds :
       AuthenticateToken(p, "updatePost", authorization, body, id)
  \/ \E p \in Procs, authorization \in PostHeaders, id \in PostIds :
       AuthenticateToken(p, "deletePost", authorization, NoPostBody, id)
  \/ \E p \in Procs : AuthenticateTokenFindUnique(p)
  \/ \E p \in Procs : CreatePost(p)
  \/ \E p \in Procs : CreatePostCreate(p)
  \/ \E p \in Procs : UpdatePost(p)
  \/ \E p \in Procs : UpdatePostFindUnique(p)
  \/ \E p \in Procs : UpdatePostUpdate(p)
  \/ \E p \in Procs : DeletePost(p)
  \/ \E p \in Procs : DeletePostFindUnique(p)
  \/ \E p \in Procs : DeletePostDelete(p)

SpecPosts == InitPosts /\ [][NextPosts]_vars
(***************************************************************************)
(* Creating and updating posts by one client that waits for each answer,   *)
(* with the bodies a client can send: title and content present, absent or *)
(* empty, and a key the schemas do not declare                             *)
(***************************************************************************)
Clients == {"p1"}

EditCreateBodies ==
  {PostBody(Some("t1"), None, None), PostBody(Some("t1"), Some("c1"), None),
   PostBody(Some("t1"), Some(""), None), PostBody(None, Some("c1"), None),
   PostBody(Some(""), None, None), PostBody(Some("t1"), None, Some(2))}

EditUpdateBodies ==
  {PostBody(Some("t2"), None, None), PostBody(None, Some(""), None),
   PostBody(None, Some("c1"), None), PostBody(Some("t2"), Some(""), None),
   PostBody(None, None, None), PostBody(Some(""), None, None), PostBody(None, None, Some(2))}

EditIds == {1, 2}

NextEdit ==
  \/ \E p \in Clients, authorization \in PostHeaders, body \in EditCreateBodies :
       AuthenticateToken(p, "createPost", authorization, body, 0)
  \/ \E p \in Clients, authorization \in PostHeaders, body \in EditUpdateBodies, id \in EditIds :
       AuthenticateToken(p, "updatePost", authorization, body, id)
  \/ \E p \in Clients : AuthenticateTokenFindUnique(p)
  \/ \E p \in Clients : CreatePost(p)
  \/ \E p \in Clients : CreatePostCreate(p)
  \/ \E p \in Clients : UpdatePost(p)
  \/ \E p \in Clients : UpdatePostFindUnique(p)
  \/ \E p \in Clients : UpdatePostUpdate(p)

SpecEdit == InitPosts /\ [][NextEdit]_vars
(***************************************************************************)
(* The public listing, asked by anyone at any moment, while one client     *)
(* creates and deletes posts and the clock advances                        *)
(***************************************************************************)
FeedBodies == {PostBody(Some("t1"), None, None)}

NextFeed ==
  \/ \E p \in Clients, authorization \in PostHeaders, body \in FeedBodies :
       AuthenticateToken(p, "createPost", authorization, body, 0)
  \/ \E p \in Clients, authorization \in PostHeaders, id \in EditIds :
       AuthenticateToken(p, "deletePost", authorization, NoPostBody, id)
  \/ \E p \in Clients : AuthenticateTokenFindUnique(p)
  \/ \E p \in Clients : CreatePost(p)
  \/ \E p \in Clients : CreatePostCreate(p)
  \/ \E p \in Clients : DeletePost(p)
  \/ \E p \in Clients : DeletePostFindUnique(p)
  \/ \E p \in Clients : DeletePostDelete(p)
  \/ \E p \in Procs : GetAllPosts(p)
  \/ \E p \in Procs : GetAllPostsFindMany(p)
  \/ Tick

SpecFeed == InitPosts /\ [][NextFeed]_vars
(***************************************************************************)
(* The whole API used by one client that waits for each answer: sign-up,   *)
(* login and the five post routes, one account being there from the start, *)
(* while somebody else may sign up with the other email at the same time   *)
(***************************************************************************)
InitApi ==
  /\ users = {Account(1, "a@x.com")}
  /\ posts = {}
  /\ nextPostId = 1
  /\ now = 0
  /\ req = [p \in Procs |-> Idle]

OtherBodies == {AuthBody(Some("b@x.com"), Some("secret1"))}

ApiRegisterBodies == RegisterBodies \cup {AuthBody(Some("not-an-email"), Some("123"))}

ApiCreateBodies ==
  CreateBodies \cup {PostBody(Some(""), None, None), PostBody(None, None, Some(2)),
                     PostBody(Some("t1"), None, Some(2))}

NextApi ==
  \/ \E p \in Clients, body \in ApiRegisterBodies : Register(p, body)
  \/ \E p \in Procs \ Clients, body \in OtherBodies : Register(p, body)
  \/ \E p \in Procs : RegisterFindUnique(p)
  \/ \E p \in Procs : RegisterHash(p)
  \/ \E p \in Procs : RegisterCreate(p)
  \/ \E p \in Clients, body \in LoginBodies : Login(p, body)
  \/ \E p \in Clients : LoginFindUnique(p)
  \/ \E p \in Clients : LoginCompare(p)
  \/ \E p \in Clients, authorization \in PostHeaders, body \in ApiCreateBodies :
       AuthenticateToken(p, "createPost", authorization, body, 0)
  \/ \E p \in Clients, authorization \in PostHeaders, body \in UpdateBodies, id \in PostIds :
       AuthenticateToken(p, "updatePost", authorization, body, id)
  \/ \E p \in Clients, authorization \in PostHeaders, id \in PostIds :
       AuthenticateToken(p, "deletePost", authorization, NoPostBody, id)
  \/ \E p \in Clients : AuthenticateTokenFindUnique(p)
  \/ \E p \in Clients : GetAllPosts(p)
  \/ \E p \in Clients : GetAllPostsFindMany(p)
  \/ \E p \in Clients, id \in PostIds : GetPostById(p, id)
  \/ \E p \in Clients : GetPostByIdFindUnique(p)
  \/ \E p \in Clients : CreatePost(p)
  \/ \E p \in Clients : CreatePostCreate(p)
  \/ \E p \in Clients : UpdatePost(p)
  \/ \E p \in Clients : UpdatePostFindUnique(p)
  \/ \E p \in Clients : UpdatePostUpdate(p)
  \/ \E p \in Clients : DeletePost(p)
  \/ \E p \in Clients : DeletePostFindUnique(p)
  \/ \E p \in Clients : DeletePostDelete(p)

SpecApi == InitApi /\ [][NextApi]_vars
(***************************************************************************)
(* Two requests of the owner updating the same post at the same time       *)
(***************************************************************************)
RaceHeaders == {Some(<<Bearer, SP, generateToken(1, 0)>>)}

RaceUpdateBodies == {PostBody(Some("t2"), None, None), PostBody(Some("t3"), Some("c1"), None)}

NextRace ==
  \/ \E p \in Clients, authorization \in RaceHeaders, body \in FeedBodies :
       AuthenticateToken(p, "createPost", authorization, body, 0)
  \/ \E p \in Procs, authorization \in RaceHeaders, body \in RaceUpdateBodies, id \in PostIds :
       AuthenticateToken(p, "updatePost", authorization, body, id)
  \/ \E p \in Procs : AuthenticateTokenFindUnique(p)
  \/ \E p \in Procs : CreatePost(p)
  \/ \E p \in Procs : CreatePostCreate(p)
  \/ \E p \in Procs : UpdatePost(p)
  \/ \E p \in Procs : UpdatePostFindUnique(p)
  \/ \E p \in Procs : UpdatePostUpdate(p)

SpecRace == InitPosts /\ [][NextRace]_vars

\* the handlers called on a request object built by the caller, without the router:
\* await createPost(req, res) with req.user set or left undefined
Invoke(p, route, user, postBody, id) ==
  /\ Free(p)
  /\ req' = [req EXCEPT ![p] = [Idle EXCEPT !.op = route, !.user = user,
                                            !.postBody = postBody, !.id = id,
                                            !.pc = "handler"]]
  /\ UNCHANGED <<users, posts, nextPostId, now>>

DirectUsers == {None, Some(IdEmail(Account(1, "a@x.com")))}

DirectCreateBodies == {PostBody(Some("t1"), None, None), PostBody(Some(""), None, None)}

DirectUpdateBodies == {PostBody(Some("t2"), None, None), PostBody(None, None, None)}

NextDirect ==
  \/ \E p \in Clients, user \in DirectUsers, postBody \in DirectCreateBodies :
       Invoke(p, "createPost", user, postBody, 0)
  \/ \E p \in Clients, user \in DirectUsers, postBody \in DirectUpdateBodies, id \in EditIds :
       Invoke(p, "updatePost", user, postBody, id)
  \/ \E p \in Clients, user \in DirectUsers, id \in EditIds :
       Invoke(p, "deletePost", user, NoPostBody, id)
  \/ \E p \in Clients : CreatePost(p)
  \/ \E p \in Clients : CreatePostCreate(p)
  \/ \E p \in Clients : UpdatePost(p)
  \/ \E p \in Clients : UpdatePostFindUnique(p)
  \/ \E p \in Clients : UpdatePostUpdate(p)
  \/ \E p \in Clients : DeletePost(p)
  \/ \E p \in Clients : DeletePostFindUnique(p)
  \/ \E p \in Clients : DeletePostDelete(p)

SpecDirect == InitPosts /\ [][NextDirect]_vars

\* the seven handlers called one at a time by one caller, each awaited collaborator
\* settling (resolved or rejected) and the event loop then running the continuation
LiveRegisterBodies ==
  {AuthBody(Some(e), Some("secret1")) : e \in Emails} \cup {AuthBody(None, Some("secret1"))}

LiveLoginBodies ==
  {AuthBody(Some("a@x.com"), Some(w)) : w \in {"secret1", "123"}} \cup
  {AuthBody(Some("b@x.com"), Some("secret1")), AuthBody(None, None)}

Invocation ==
  \/ \E p \in Clients, body \in LiveRegisterBodies : Register(p, body)
  \/ \E p \in Clients, body \in LiveLoginBodies : Login(p, body)
  \/ \E p \in Clients : GetAllPosts(p)
  \/ \E p \in Clients, id \in PostIds : GetPostById(p, id)
  \/ \E p \in Clients, user \in DirectUsers, postBody \in DirectCreateBodies :
       nextPostId <= MaxPosts /\ Invoke(p, "createPost", user, postBody, 0)
  \/ \E p \in Clients, user \in DirectUsers, postBody \in DirectUpdateBodies, id \in PostIds :
       Invoke(p, "updatePost", user, postBody, id)
  \/ \E p \in Clients, user \in DirectUsers, id \in PostIds :
       Invoke(p, "deletePost", user, NoPostBody, id)

Continuation ==
  \/ \E p \in Clients : RegisterFindUnique(p)
  \/ \E p \in Clients : RegisterHash(p)
  \/ \E p \in Clients : RegisterCreate(p)
  \/ \E p \in Clients : LoginFindUnique(p)
  \/ \E p \in Clients : LoginCompare(p)
  \/ \E p \in Clients : GetAllPostsFindMany(p)
  \/ \E p \in Clients : GetPostByIdFindUnique(p)
  \/ \E p \in Clients : CreatePost(p)
  \/ \E p \in Clients : CreatePostCreate(p)
  \/ \E p \in Clients : UpdatePost(p)
  \/ \E p \in Clients : UpdatePostFindUnique(p)
  \/ \E p \in Clients : UpdatePostUpdate(p)
  \/ \E p \in Clients : DeletePost(p)
  \/ \E p \in Clients : DeletePostFindUnique(p)
  \/ \E p \in Clients : DeletePostDelete(p)

NextLive == Invocation \/ Continuation

SpecLive == InitApi /\ [][NextLive]_vars /\ WF_vars(Continuation)
(***************************************************************************)
(* Properties                                                              *)
(***************************************************************************)
Stepped(p) == req'[p] # req[p]
Arrived(p) == Free(p) /\ Stepped(p)
GuardOps == Routes \cup {"authenticateToken"}
LastCall(r) == r.log[Len(r.log)]
NoFaultNow(p) == Len(req'[p].log) > 0 /\ LastCall(req'[p]).err # "fault"
Refused(r, code, message) ==
  /\ Answered(r) /\ Len(r.out) = 1
  /\ r.out[1] = [code |-> code, status |-> "error", message |-> Some(message), data |-> None]
Login200(r) == r.op = "login" /\ Answered(r) /\ Code(r) = 200
Register201(r) == r.op = "register" /\ Answered(r) /\ Code(r) = 201
\* a header made of a scheme, one space and a token without spaces
HasToken(h) ==
  IsSome(h) /\ Len(h[1]) = 3 /\ h[1][1] # SP /\ h[1][2] = SP /\ h[1][3] # SP
\* 'Bearer <nonempty-token>'
BearerForm(h) == HasToken(h) /\ h[1][1] = Bearer

\* C1: when the post read by an update (valid body) or a delete exists and its author is
\* not the acting user, that step answers 403 with the route's message, leaves the posts
\* table as it is and the request has issued no update and no delete.
C1_NonOwnerRefused ==
  [][\A p \in Procs :
       ( /\ req[p].op \in {"updatePost", "deletePost"} /\ req[p].pc = "postFind"
         /\ Stepped(p) /\ NoFaultNow(p)
         /\ \E q \in posts : q.id = req[p].id /\ q.authorId # req[p].user[1].id )
       => /\ Refused(req'[p], 403, IF req[p].op = "updatePost"
                                     THEN "You can only update your own posts"
                                     ELSE "You can only delete your own posts")
          /\ posts' = posts
          /\ Calls(req'[p]) \cap {"posts.update", "posts.delete"} = {}]_vars

C1_Witness ==
  \E p, q \in Procs :
    /\ req[p].op = "updatePost" /\ Refused(req[p], 403, "You can only update your own posts")
    /\ req[q].op = "deletePost" /\ Refused(req[q], 403, "You can only delete your own posts")
    /\ IsSome(req[p].user) /\ IsSome(req[q].user)
    /\ \E x \in posts : /\ x.id = req[p].id /\ x.authorId # req[p].user[1].id
                         /\ x.id = req[q].id /\ x.authorId # req[q].user[1].id

\* C2: no two accounts share an email, and a register with a valid body that created no
\* account although no collaborator failed is answered 409 'Email already registered'.
C2_ConflictSurfaced ==
  /\ \A u, v \in users : u.email = v.email => u = v
  /\ \A p \in Procs :
       ( /\ req[p].op = "register" /\ Answered(req[p])
         /\ registerSchema(req[p].body) = None
         /\ ~Faulted(req[p]) /\ Code(req[p]) # 201 )
       => Refused(req[p], 409, "Email already registered")

\* C3: a register whose existence query runs when an account with its email is already
\* stored is answered 409 'Email already registered' in that step, has called neither
\* bcrypt.hash nor user.create, and the table still holds exactly one account with the email.
C3_SecondRegisterConflicts ==
  [][\A p \in Procs :
       ( /\ req[p].op = "register" /\ req[p].pc = "findUnique"
         /\ Stepped(p) /\ NoFaultNow(p)
         /\ \E u \in users : u.email = req[p].body.email[1] )
       => /\ Refused(req'[p], 409, "Email already registered")
          /\ Calls(req'[p]) \cap {"bcrypt.hash", "user.create"} = {}
          /\ users' = users
          /\ Cardinality({u \in users' : u.email = req[p].body.email[1]}) = 1]_vars

C3_Witness ==
  \E p, q \in Procs :
    /\ Register201(req[q])
    /\ req[p].op = "register" /\ Answered(req[p]) /\ Code(req[p]) = 409
    /\ req[p].body = req[q].body

\* C4: with a register answered 201 still on record, a login with the same body whose
\* collaborators do not fail finds the account and is answered 200 with a token that embeds
\* the id the registration returned; that token, presented as 'Bearer <token>' before its
\* expiry, passes verification, and the lookup that follows attaches exactly the account's
\* {id, email} and calls next() once.
C4_RegisterLoginGuard ==
  [][\A p, q \in Procs :
       /\ ( /\ Register201(req[q])
            /\ req[p].op = "login" /\ req[p].body = req[q].body
            /\ Stepped(p) /\ NoFaultNow(p) )
          => /\ req[p].pc = "findUnique" => req'[p].pc = "compare"
             /\ req[p].pc = "compare" =>
                  /\ Login200(req'[p])
                  /\ req'[p].out[1].data[1].token.userId = req[q].out[1].data[1].user.id
                  /\ req'[p].out[1].data[1].user =
                       [id |-> req[q].out[1].data[1].user.id, email |-> req[q].body.email[1]]
       /\ ( /\ Login200(req[p])
            /\ Arrived(q) /\ req'[q].op \in GuardOps
            /\ req'[q].authorization = Some(<<Bearer, SP, req[p].out[1].data[1].token>>)
            /\ now < req[p].out[1].data[1].token.iat + Hour )
          => req'[q].pc = "guardFind"
       /\ ( /\ Login200(req[p])
            /\ req[q].pc = "guardFind" /\ Stepped(q) /\ NoFaultNow(q)
            /\ req[q].authorization = Some(<<Bearer, SP, req[p].out[1].data[1].token>>) )
          => /\ req'[q].user = Some(req[p].out[1].data[1].user)
             /\ req'[q].user[1].email = req[p].body.email[1]
             /\ req'[q].nextCalls = 1 /\ req'[q].out = <<>>]_vars

C4_Witness ==
  \E p, q \in Procs :
    /\ Login200(req[p])
    /\ req[q].op = "authenticateToken" /\ req[q].pc = "done" /\ req[q].nextCalls = 1
    /\ req[q].authorization = Some(<<Bearer, SP, req[p].out[1].data[1].token>>)
    /\ req[q].user = Some(req[p].out[1].data[1].user)
    /\ \E u \in users : u.id = req[q].user[1].id /\ u.email = req[p].body.email[1]

\* C5: a login that ends at the account lookup because no account has the email, and a
\* login that ends at the comparison because the password does not match, send the same
\* response: 401 {status:'error', message:'Invalid email or password'}.
C5_SameRefusal ==
  [][\A p \in Procs :
       ( /\ req[p].op = "login" /\ Stepped(p) /\ NoFaultNow(p)
         /\ \/ /\ req[p].pc = "findUnique"
               /\ \A u \in users : u.email # req[p].body.email[1]
            \/ /\ req[p].pc = "compare"
               /\ \E u \in users : /\ u.email = req[p].body.email[1]
                                   /\ u.password.of # req[p].body.password[1] )
       => Refused(req'[p], 401, "Invalid email or password")]_vars

C5_Witness ==
  \E p, q \in Procs :
    /\ req[p].op = "login" /\ Answered(req[p]) /\ Calls(req[p]) = {"loginSchema.validate", "user.findUnique"}
    /\ req[q].op = "login" /\ Answered(req[q]) /\ "bcrypt.compare" \in Calls(req[q])
    /\ ~Faulted(req[p]) /\ ~Faulted(req[q])
    /\ Code(req[p]) = 401 /\ req[p].out = req[q].out

\* C6: a login has called jwt.sign only if its body is valid, an account has its email and
\* the password matches the stored hash, and never after a lookup or a comparison that
\* failed; a login response with data is a 200 whose token carries that account's id, the
\* secret's signature and exp = iat + 1h; and, no collaborator failing, a valid body goes
\* to the lookup, a found account to the comparison and a matching password to a 200
\* with a token.
LoginAccount(r) == CHOOSE u \in users : u.email = r.body.email[1]

C6_TokenIffCredentials ==
  /\ [](\A p \in Procs : req[p].op = "login" =>
          /\ "jwt.sign" \in Calls(req[p]) =>
               /\ loginSchema(req[p].body) = None
               /\ \E u \in users : /\ u.email = req[p].body.email[1]
                                   /\ u.password.of = req[p].body.password[1]
          /\ (Answered(req[p]) /\ IsSome(req[p].out[1].data)) =>
               /\ Code(req[p]) = 200 /\ Len(req[p].out) = 1
               /\ [call |-> "jwt.sign", err |-> "none"] \in Range(req[p].log)
               /\ req[p].out[1].data[1].token.kind = "jwt"
               /\ req[p].out[1].data[1].token.sig = "secret"
               /\ req[p].out[1].data[1].token.userId = LoginAccount(req[p]).id
               /\ req[p].out[1].data[1].token.iat <= now
               /\ req[p].out[1].data[1].token.exp = req[p].out[1].data[1].token.iat + Hour
          /\ (Answered(req[p]) /\ ~IsSome(req[p].out[1].data)) =>
               [call |-> "jwt.sign", err |-> "none"] \notin Range(req[p].log)
          /\ (\E e \in Range(req[p].log) : e.call # "jwt.sign" /\ e.err = "fault") =>
               "jwt.sign" \notin Calls(req[p]))
  /\ [][\A p \in Procs :
          /\ (Arrived(p) /\ req'[p].op = "login" /\ loginSchema(req'[p].body) = None)
               => req'[p].pc = "findUnique"
          /\ (req[p].op = "login" /\ Stepped(p) /\ NoFaultNow(p)) =>
               /\ ( /\ req[p].pc = "findUnique"
                    /\ \E u \in users : u.email = req[p].body.email[1] )
                  => req'[p].pc = "compare"
               /\ ( /\ req[p].pc = "compare"
                    /\ LoginAccount(req[p]).password.of = req[p].body.password[1] )
                  => Login200(req'[p]) /\ IsSome(req'[p].out[1].data)]_vars

C6_Witness ==
  \E p, q \in Procs :
    /\ Login200(req[p]) /\ req[p].out[1].data[1].token.userId = LoginAccount(req[p]).id
    /\ req[q].op = "login" /\ Answered(req[q]) /\ Code(req[q]) = 401

\* C7: a guarded request whose Authorization header is absent or is not 'Bearer
\* <nonempty-token>' is answered 401 'Access token required' without jwt.verify, without
\* an account query and without next().
C7_OnlyBearerAccepted ==
  \A p \in Procs :
    (req[p].op \in GuardOps /\ ~BearerForm(req[p].authorization))
    => /\ Refused(req[p], 401, "Access token required")
       /\ Calls(req[p]) \cap {"jwt.verify", "user.findUnique"} = {}
       /\ req[p].nextCalls = 0

\* C8: a guarded request that arrives with a token which is not a JWT, is not signed with
\* the secret or is expired is answered 403 'Invalid or expired token' at once, without an
\* account query; one whose account query rejects is answered the same; neither calls next().
C8_BadTokenForbidden ==
  [][\A p \in Procs :
       /\ ( /\ Arrived(p) /\ req'[p].op \in GuardOps /\ HasToken(req'[p].authorization)
            /\ \/ req'[p].authorization[1][3].kind # "jwt"
               \/ req'[p].authorization[1][3].sig # "secret"
               \/ now >= req'[p].authorization[1][3].exp )
          => /\ Refused(req'[p], 403, "Invalid or expired token")
             /\ "user.findUnique" \notin Calls(req'[p])
             /\ req'[p].nextCalls = 0 /\ req'[p].user = None
       /\ ( /\ req[p].pc = "guardFind" /\ Stepped(p)
            /\ LastCall(req'[p]) = [call |-> "user.findUnique", err |-> "fault"] )
          => /\ Refused(req'[p], 403, "Invalid or expired token")
             /\ req'[p].nextCalls = 0 /\ req'[p].user = None]_vars

C8_Witness ==
  \E p, q \in Procs :
    /\ req[p].op \in GuardOps /\ Answered(req[p]) /\ Code(req[p]) = 403
    /\ HasToken(req[p].authorization)
    /\ req[p].authorization[1][3].sig = "secret" /\ req[p].authorization[1][3].kind = "jwt"
    /\ LastCall(req[p]) = [call |-> "jwt.verify", err |-> "jwt"]
    /\ req[q].op \in GuardOps /\ Answered(req[q]) /\ Code(req[q]) = 403
    /\ LastCall(req[q]) = [call |-> "user.findUnique", err |-> "fault"]

\* C9: when the account query of the guard resolves and no account has the decoded id,
\* the answer is 401 'Invalid token', no identity is attached and next() is not called.
C9_UnknownAccountRefused ==
  [][\A p \in Procs :
       ( /\ req[p].pc = "guardFind" /\ Stepped(p) /\ NoFaultNow(p)
         /\ \A u \in users : u.id # req[p].local[1].userId )
       => /\ Refused(req'[p], 401, "Invalid token")
          /\ req'[p].user = None /\ req'[p].nextCalls = 0]_vars

C9_Witness ==
  \E p \in Procs :
    /\ req[p].op \in GuardOps /\ Refused(req[p], 401, "Invalid token")
    /\ req[p].authorization = Some(<<Bearer, SP, GhostToken>>)
    /\ users # {}

\* C10: a call of the guard on its own ends in exactly one of two ways: one error response,
\* no identity and no next(); or no response, next() called once and the identity {id, email}
\* of the stored account whose id the verified, well-signed token carries.  Until it ends
\* it has done neither.
Proceeded(r) ==
  /\ r.out = <<>> /\ r.nextCalls = 1 /\ IsSome(r.user)
  /\ [call |-> "jwt.verify", err |-> "none"] \in Range(r.log)
  /\ [call |-> "user.findUnique", err |-> "none"] \in Range(r.log)
  /\ HasToken(r.authorization)
  /\ r.authorization[1][3].kind = "jwt" /\ r.authorization[1][3].sig = "secret"
  /\ \E u \in users : /\ u.id = r.authorization[1][3].userId
                      /\ r.user[1] = [id |-> u.id, email |-> u.email]

Rejected(r) ==
  /\ Len(r.out) = 1 /\ r.out[1].status = "error" /\ r.out[1].code \in {401, 403}
  /\ r.nextCalls = 0 /\ r.user = None

C10_RejectOrProceed ==
  \A p \in Procs : req[p].op = "authenticateToken" =>
    /\ req[p].pc \in {"guardFind", "done"}
    /\ req[p].pc = "guardFind" => req[p].out = <<>> /\ req[p].nextCalls = 0 /\ req[p].user = None
    /\ req[p].pc = "done" => (Rejected(req[p]) \/ Proceeded(req[p]))
    /\ ~(Rejected(req[p]) /\ Proceeded(req[p]))

C10_Witness ==
  \E p, q \in Procs :
    /\ req[p].op = "authenticateToken" /\ req[p].pc = "done" /\ Proceeded(req[p])
    /\ req[q].op = "authenticateToken" /\ req[q].pc = "done" /\ Rejected(req[q])

\* C11: every token a login has returned is one signed with the secret for a stored account
\* with exp = iat + 1h.  Whenever such a token is presented as 'Bearer <token>', whatever
\* was presented or requested before: if less than one hour has passed since it was issued
\* it passes verification, and the account query that follows (not failing) attaches that
\* account's {id, email} and calls next() once without answering; if its expiry has been
\* reached the guard answers 403 'Invalid or expired token' without next() or identity.
C11_TokenGoodUntilExpiry ==
  /\ [](\A p \in Procs : Login200(req[p]) => req[p].out[1].data[1].token \in IssuableTokens)
  /\ [][\A p \in Procs : \A tok \in IssuableTokens :
          /\ ( /\ Arrived(p) /\ req'[p].op \in GuardOps
               /\ req'[p].authorization = Some(<<Bearer, SP, tok>>) )
             => IF now < tok.iat + Hour
                  THEN req'[p].pc = "guardFind" /\ req'[p].out = <<>>
                  ELSE /\ Refused(req'[p], 403, "Invalid or expired token")
                       /\ req'[p].nextCalls = 0 /\ req'[p].user = None
          /\ ( /\ req[p].pc = "guardFind" /\ Stepped(p) /\ NoFaultNow(p)
               /\ req[p].authorization = Some(<<Bearer, SP, tok>>) )
             => /\ req'[p].out = <<>> /\ req'[p].nextCalls = 1
                /\ \E u \in users : u.id = tok.userId /\ req'[p].user = Some(IdEmail(u))]_vars

C11_Witness ==
  \E p, q \in Procs : \E tok \in IssuableTokens :
    /\ req[p].op = "authenticateToken" /\ req[p].pc = "done" /\ req[p].nextCalls = 1
    /\ req[p].authorization = Some(<<Bearer, SP, tok>>)
    /\ req[q].op = "authenticateToken" /\ Refused(req[q], 403, "Invalid or expired token")
    /\ req[q].authorization = req[p].authorization
    /\ now >= tok.exp

\* C12: a delete whose write reaches the store while the post exists is answered 200
\* 'Post deleted successfully' without data and the post is gone from the table, all
\* other posts staying; with that 200 on record, a delete of the same id by the same user
\* whose read does not fail is answered 404 'Post not found', changes nothing and has
\* issued no posts.delete.
Deleted200(r) ==
  /\ r.op = "deletePost" /\ Answered(r) /\ Len(r.out) = 1
  /\ r.out[1] = Json(200, "success", Some("Post deleted successfully"), None)

C12_DeleteTwice ==
  [][\A p, q \in Procs :
       /\ ( /\ req[p].op = "deletePost" /\ req[p].pc = "postWrite"
            /\ Stepped(p) /\ NoFaultNow(p)
            /\ \E x \in posts : x.id = req[p].id )
          => /\ Deleted200(req'[p])
             /\ posts' = {x \in posts : x.id # req[p].id}
             /\ posts' # posts
       /\ ( /\ Deleted200(req[p])
            /\ req[q].op = "deletePost" /\ req[q].pc = "postFind"
            /\ req[q].id = req[p].id /\ req[q].user = req[p].user
            /\ Stepped(q) /\ NoFaultNow(q) )
          => /\ Refused(req'[q], 404, "Post not found")
             /\ posts' = posts
             /\ "posts.delete" \notin Calls(req'[q])]_vars

C12_Witness ==
  \E p, q \in Procs :
    /\ Deleted200(req[p])
    /\ req[q].op = "deletePost" /\ Refused(req[q], 404, "Post not found")
    /\ req[q].id = req[p].id /\ req[q].user = req[p].user /\ IsSome(req[q].user)
    /\ "posts.delete" \notin Calls(req[q])
    /\ nextPostId > req[p].id /\ \A x \in posts : x.id # req[p].id

\* C14: when the read of an update (valid body) or of a delete resolves and no post has
\* the id, the step answers 404 'Post not found' (not 403), whoever the acting user is,
\* the posts table stays as it is and the request has issued neither posts.update nor
\* posts.delete.
C14_MissingPostNotFound ==
  [][\A p \in Procs :
       ( /\ req[p].op \in {"updatePost", "deletePost"} /\ req[p].pc = "postFind"
         /\ Stepped(p) /\ NoFaultNow(p)
         /\ \A x \in posts : x.id # req[p].id )
       => /\ Refused(req'[p], 404, "Post not found")
          /\ posts' = posts
          /\ Calls(req'[p]) \cap {"posts.update", "posts.delete"} = {}]_vars

C14_Witness ==
  \E p, q \in Procs :
    /\ req[p].op = "updatePost" /\ Refused(req[p], 404, "Post not found")
    /\ req[q].op = "deletePost" /\ Refused(req[q], 404, "Post not found")
    /\ IsSome(req[p].user) /\ IsSome(req[q].user) /\ req[p].user # req[q].user
    /\ \E x \in posts : x.id # req[p].id
    /\ \A x \in posts : x.id # req[p].id /\ x.id # req[q].id

\* C13: an update whose body has neither title nor content, has an empty title or has a
\* key other than title and content never reads or writes the posts table, whatever its
\* id and its acting user; when the handler runs on it, that step answers 400 with an
\* error body and the posts table stays as it is.
InvalidUpdate(b) ==
  \/ ~IsSome(b.title) /\ ~IsSome(b.content)
  \/ b.title = Some("")
  \/ IsSome(b.authorId)

C13_InvalidUpdateNoStore ==
  /\ [](\A p \in Procs : (req[p].op = "updatePost" /\ InvalidUpdate(req[p].postBody)) =>
          /\ Calls(req[p]) \cap {"posts.findUnique", "posts.update"} = {}
          /\ req[p].pc \notin {"postFind", "postWrite"}
          /\ (Answered(req[p]) /\ req[p].nextCalls = 1) =>
                Len(req[p].out) = 1 /\ Code(req[p]) = 400)
  /\ [][\A p \in Procs :
          ( /\ req[p].op = "updatePost" /\ req[p].pc = "handler" /\ Stepped(p)
            /\ InvalidUpdate(req[p].postBody) )
          => /\ Answered(req'[p]) /\ Len(req'[p].out) = 1
             /\ req'[p].out[1].code = 400 /\ req'[p].out[1].status = "error"
             /\ IsSome(req'[p].out[1].message) /\ req'[p].out[1].data = None
             /\ posts' = posts]_vars

C13_Witness ==
  \E p \in Procs :
    /\ req[p].op = "updatePost" /\ req[p].postBody = NoPostBody
    /\ Answered(req[p]) /\ Code(req[p]) = 400 /\ IsSome(req[p].user)
    /\ Calls(req[p]) \cap {"posts.findUnique", "posts.update"} = {}
    /\ \E x \in posts : x.id = req[p].id /\ x.authorId = req[p].user[1].id

C16_CreateInsertsOne ==
  [][\A p \in Procs :
       /\ ( /\ req[p].op = "createPost" /\ req[p].pc = "handler" /\ Stepped(p)
            /\ IsSome(req[p].postBody.title) /\ req[p].postBody.title # Some("")
            /\ ~IsSome(req[p].postBody.authorId) )
          => req'[p].pc = "postWrite" /\ req'[p].out = <<>> /\ posts' = posts
       /\ ( /\ req[p].op = "createPost" /\ req[p].pc = "postWrite"
            /\ Stepped(p) /\ NoFaultNow(p) )
          => \E row \in posts', u \in users :
               /\ posts' = posts \cup {row}
               /\ \A x \in posts : x.id # row.id
               /\ u.id = req[p].authorization[1][3].userId
               /\ req[p].user = Some([id |-> u.id, email |-> u.email])
               /\ row.authorId = u.id
               /\ row.title = req[p].postBody.title[1]
               /\ row.content = IF IsSome(req[p].postBody.content)
                                  THEN req[p].postBody.content[1] ELSE ""
               /\ Answered(req'[p])
               /\ req'[p].out =
                    <<[code |-> 201, status |-> "success",
                       message |-> Some("Post created successfully"),
                       data |-> Some([post |->
                         [id |-> row.id, title |-> row.title, content |-> row.content,
                          authorId |-> row.authorId, createdAt |-> row.createdAt,
                          author |-> [id |-> u.id, email |-> u.email]]])]>>]_vars

C16_Witness ==
  \E p \in Procs :
    /\ req[p].op = "createPost" /\ Answered(req[p]) /\ Code(req[p]) = 201
    /\ ~IsSome(req[p].postBody.content)
    /\ \E x, y \in posts :
         /\ x.id = req[p].out[1].data[1].post.id /\ x.content = "" /\ x.authorId = req[p].user[1].id
         /\ y.id # x.id /\ y.content = "c1" /\ y.authorId # x.authorId

\* C17: a list request carries no Authorization header and goes to the store without
\* the guard; when its query resolves it is answered 200 with status 'success' and a
\* sequence that holds each post of the table exactly once, as stored and with its
\* author's {id, email}, in which no post comes before one created later; on an empty
\* table the sequence is empty.
C17_ListAllNewestFirst ==
  /\ [](\A p \in Procs : req[p].op = "getAllPosts" =>
          /\ req[p].authorization = None /\ req[p].user = None /\ req[p].nextCalls = 0
          /\ Calls(req[p]) \subseteq {"posts.findMany"})
  /\ [][\A p \in Procs :
          ( /\ req[p].op = "getAllPosts" /\ req[p].pc = "findMany"
            /\ Stepped(p) /\ NoFaultNow(p) )
          => /\ Answered(req'[p]) /\ Len(req'[p].out) = 1
             /\ req'[p].out[1].code = 200 /\ req'[p].out[1].status = "success"
             /\ IsSome(req'[p].out[1].data)
             /\ LET s == req'[p].out[1].data[1].posts
                IN /\ Len(s) = Cardinality(posts)
                   /\ posts = {} => s = <<>>
                   /\ \A x \in posts : \E i \in 1..Len(s), u \in users :
                        /\ u.id = x.authorId
                        /\ s[i] = [id |-> x.id, title |-> x.title, content |-> x.content,
                                    authorId |-> x.authorId, createdAt |-> x.createdAt,
                                    author |-> [id |-> u.id, email |-> u.email]]
                   /\ \A i, j \in 1..Len(s) : i < j => s[i].createdAt >= s[j].createdAt
             /\ posts' = posts]_vars

C17_Witness ==
  \E p \in Procs :
    /\ req[p].op = "getAllPosts" /\ Answered(req[p]) /\ Code(req[p]) = 200
    /\ Len(req[p].out[1].data[1].posts) = 2
    /\ req[p].out[1].data[1].posts[1].createdAt > req[p].out[1].data[1].posts[2].createdAt
    /\ req[p].out[1].data[1].posts[1].authorId # req[p].out[1].data[1].posts[2].authorId
    /\ nextPostId > 1

\* C18: in register, login, list, get, create, update and delete, a step in which a call
\* of the store, of bcrypt or of jwt.sign fails (a rejection, or an error of the unique
\* index, of the foreign key or for a missing row) answers 500 with exactly
\* {status:'error', message:'Internal server error'} and no data, and changes no table.
HandlerOps ==
  {"register", "login", "getAllPosts", "getPostById", "createPost", "updatePost", "deletePost"}

C18_FailuresAre500 ==
  [][\A p \in Procs :
       ( /\ Stepped(p) /\ req[p].pc \notin {"idle", "done", "guardFind"}
         /\ req[p].op \in HandlerOps
         /\ Len(req'[p].log) > Len(req[p].log)
         /\ LastCall(req'[p]).err # "none" )
       => /\ Refused(req'[p], 500, "Internal server error")
          /\ users' = users /\ posts' = posts]_vars

C18_Witness ==
  \E p, q \in Procs :
    /\ req[p].op \in {"getAllPosts", "getPostById", "createPost", "updatePost", "deletePost"}
    /\ req[p].nextCalls = (IF req[p].op \in Routes THEN 1 ELSE 0)
    /\ Refused(req[p], 500, "Internal server error")
    /\ LastCall(req[p]).err = "fault"
    /\ req[q].op = "register" /\ Refused(req[q], 500, "Internal server error")
    /\ LastCall(req[q]) = [call |-> "user.create", err |-> "P2002"]

\* C19: every response has the fields code, status, message and data only; a register
\* response with data has data.user with exactly {id, email, createdAt}; a login response
\* with data has exactly a token (whose payload is the account id and the two dates) and
\* a user with exactly {id, email}; a post in a response has exactly its own columns and
\* an author with exactly {id, email}; an identity attached by the guard has exactly
\* {id, email}; no message is an account's password.
PostShape(x) ==
  /\ DOMAIN x = {"id", "title", "content", "authorId", "createdAt", "author"}
  /\ DOMAIN x.author = {"id", "email"}

DataShape(op, d) ==
  CASE op = "register" -> DOMAIN d = {"user"} /\ DOMAIN d.user = {"id", "email", "createdAt"}
    [] op = "login" -> /\ DOMAIN d = {"token", "user"}
                       /\ DOMAIN d.user = {"id", "email"}
                       /\ DOMAIN d.token = {"kind", "userId", "iat", "exp", "sig"}
    [] op = "getAllPosts" -> /\ DOMAIN d = {"posts"}
                             /\ \A k \in 1..Len(d.posts) : PostShape(d.posts[k])
    [] op \in {"getPostById", "createPost", "updatePost"} ->
         DOMAIN d = {"post"} /\ PostShape(d.post)
    [] OTHER -> FALSE

C19_NoPasswordLeaves ==
  \A p \in Procs :
    /\ IsSome(req[p].user) => DOMAIN req[p].user[1] = {"id", "email"}
    /\ \A i \in 1..Len(req[p].out) :
         /\ DOMAIN req[p].out[i] = {"code", "status", "message", "data"}
         /\ IsSome(req[p].out[i].data) => DataShape(req[p].op, req[p].out[i].data[1])
         /\ IsSome(req[p].out[i].message) =>
              \A u \in users : req[p].out[i].message[1] # u.password.of

C19_Witness ==
  \E p, q \in Procs :
    /\ Register201(req[q]) /\ DOMAIN req[q].out[1].data[1].user = {"id", "email", "createdAt"}
    /\ \E u \in users : u.id = req[q].out[1].data[1].user.id /\ u.password.of = "secret1"
    /\ req[p].op = "updatePost" /\ Answered(req[p]) /\ Code(req[p]) = 200
    /\ DOMAIN req[p].user[1] = {"id", "email"}
    /\ DOMAIN req[p].out[1].data[1].post.author = {"id", "email"}

\* C20: a register or login that arrives with a body breaking a rule of its schema is
\* answered 400 with the message of the first rule broken in the schema's key order, and
\* the request makes no call but the validation; a create handler run on a body breaking
\* a rule of postSchema answers 400 with the first broken rule's message and makes no
\* call after the validation, so no insert.  No table changes.
FirstOf(a, b) == IF IsSome(a) THEN a ELSE b
RegisterError(b) == FirstOf(EmailRule(b.email), RegisterPasswordRule(b.password))
LoginError(b) == FirstOf(EmailRule(b.email), RequiredString("password", b.password))
CreateError(b) == FirstOf(RequiredString("title", b.title), UnknownKey("authorId", b.authorId))

C20_InvalidBody400 ==
  /\ [](\A p \in Procs :
          /\ (req[p].op = "register" /\ IsSome(RegisterError(req[p].body)))
               => Calls(req[p]) = {"registerSchema.validate"}
          /\ (req[p].op = "login" /\ IsSome(LoginError(req[p].body)))
               => Calls(req[p]) = {"loginSchema.validate"}
          /\ (req[p].op = "createPost" /\ IsSome(CreateError(req[p].postBody)))
               => "posts.create" \notin Calls(req[p]) /\ req[p].pc # "postWrite")
  /\ [][\A p \in Procs :
          /\ (Arrived(p) /\ req'[p].op = "register" /\ IsSome(RegisterError(req'[p].body)))
               => /\ Refused(req'[p], 400, RegisterError(req'[p].body)[1])
                  /\ users' = users /\ posts' = posts
          /\ (Arrived(p) /\ req'[p].op = "login" /\ IsSome(LoginError(req'[p].body)))
               => /\ Refused(req'[p], 400, LoginError(req'[p].body)[1])
                  /\ users' = users /\ posts' = posts
          /\ ( /\ req[p].op = "createPost" /\ req[p].pc = "handler" /\ Stepped(p)
               /\ IsSome(CreateError(req[p].postBody)) )
               => /\ Refused(req'[p], 400, CreateError(req[p].postBody)[1])
                  /\ req'[p].log =
                       Append(req[p].log, [call |-> "postSchema.validate", err |-> "none"])
                  /\ users' = users /\ posts' = posts]_vars

C20_Witness ==
  \E p, q \in Procs :
    /\ req[p].op = "createPost" /\ req[p].postBody = PostBody(None, None, Some(2))
    /\ req[p].nextCalls = 1 /\ Refused(req[p], 400, "title is required")
    /\ req[q].op = "register" /\ Answered(req[q])
    /\ posts # {}

\* C21: no step changes the authorId of a stored post, and a post that enters the table
\* does so with a new id, in a step of a create, with the acting user's id as authorId;
\* an update whose body carries authorId never reads or writes the posts table and, when
\* its handler runs, is answered 400.
C21_AuthorNeverReassigned ==
  /\ [](\A p \in Procs : (req[p].op = "updatePost" /\ IsSome(req[p].postBody.authorId)) =>
          /\ Calls(req[p]) \cap {"posts.findUnique", "posts.update"} = {}
          /\ (Answered(req[p]) /\ req[p].nextCalls = 1) => Code(req[p]) = 400)
  /\ [][/\ \A x \in posts, y \in posts' : y.id = x.id => y.authorId = x.authorId
        /\ \A y \in posts' : (\A x \in posts : x.id # y.id) =>
             /\ y.id = nextPostId /\ nextPostId' > nextPostId
             /\ \E p \in Procs : /\ req[p].op = "createPost" /\ Stepped(p)
                                   /\ y.authorId = req[p].user[1].id]_vars

C21_Witness ==
  \E p \in Procs :
    /\ req[p].op = "updatePost" /\ req[p].postBody = PostBody(None, None, Some(2))
    /\ req[p].nextCalls = 1 /\ Answered(req[p]) /\ Code(req[p]) = 400
    /\ req[p].user[1].id = 1
    /\ \E x \in posts : x.id = req[p].id /\ x.authorId = 1 /\ x.title = "t2"

\* C22: when two updates of the same post by its owner have both passed the existence and
\* ownership checks, the write of either one (not failing) is answered 200 and stores its
\* body's fields while the other still waits to write; and the write of an update that
\* comes after another request's update of the same post was answered 200 is answered 200
\* too and stores its own body's fields over the earlier ones, keeping a field only the
\* earlier body had.
Updated200(r) ==
  /\ r.op = "updatePost" /\ Answered(r) /\ Len(r.out) = 1 /\ r.out[1].code = 200
  /\ r.out[1].message = Some("Post updated successfully")

Stores(x, b) ==
  /\ IsSome(b.title) => x.title = b.title[1]
  /\ IsSome(b.content) => x.content = b.content[1]

C22_LastWriteWins ==
  [][\A p, q \in Procs :
       ( /\ p # q
         /\ req[p].op = "updatePost" /\ req[p].pc = "postWrite"
         /\ req[q].op = "updatePost" /\ req[q].id = req[p].id
         /\ req[q].pc = "postWrite" \/ Updated200(req[q])
         /\ Stepped(p) /\ NoFaultNow(p)
         /\ \E x \in posts : x.id = req[p].id )
       => /\ Updated200(req'[p])
          /\ req'[q] = req[q]
          /\ \E x \in posts, y \in posts' :
               /\ x.id = req[p].id /\ y.id = x.id /\ posts' \ {y} = posts \ {x}
               /\ Stores(y, req[p].postBody)
               /\ ~IsSome(req[p].postBody.content) => y.content = x.content]_vars

C22_Witness ==
  \E p, q \in Procs :
    /\ p # q /\ Updated200(req[p]) /\ Updated200(req[q]) /\ req[p].id = req[q].id
    /\ req[p].user = req[q].user
    /\ req[p].postBody = PostBody(Some("t2"), None, None)
    /\ req[q].postBody = PostBody(Some("t3"), Some("c1"), None)
    /\ \E x \in posts : x.id = req[p].id /\ x.title = "t2" /\ x.content = "c1"
                          /\ x.authorId = req[p].user[1].id

\* C23: a create, update or delete request is in its handler, or has made a call of its
\* handler, only if the guard verified its token, found the account and called next()
\* once, and it then carries the {id, email} of a stored account; one for which next()
\* was not called has made no call but the guard's.  A list or get request never goes
\* through the guard: no jwt.verify, no account query, no next(), no identity.
InHandler(r) ==
  \/ r.pc \in {"handler", "postFind", "postWrite"}
  \/ Calls(r) \ {"jwt.verify", "user.findUnique"} # {}

C23_GuardBeforeHandlers ==
  \A p \in Procs :
    /\ (req[p].op \in Routes /\ InHandler(req[p])) =>
         /\ req[p].nextCalls = 1
         /\ Len(req[p].log) >= 2
         /\ req[p].log[1] = [call |-> "jwt.verify", err |-> "none"]
         /\ req[p].log[2] = [call |-> "user.findUnique", err |-> "none"]
         /\ IsSome(req[p].user)
         /\ \E u \in users : req[p].user[1] = [id |-> u.id, email |-> u.email]
    /\ (req[p].op \in Routes /\ req[p].nextCalls = 0) =>
         /\ req[p].pc \in {"guardFind", "done"}
         /\ Calls(req[p]) \subseteq {"jwt.verify", "user.findUnique"}
    /\ req[p].op \in {"getAllPosts", "getPostById"} =>
         /\ req[p].nextCalls = 0 /\ req[p].user = None
         /\ Calls(req[p]) \cap {"jwt.verify", "user.findUnique"} = {}

C23_Witness ==
  \E p \in Procs :
    /\ req[p].op = "updatePost" /\ Updated200(req[p])
    /\ req[p].nextCalls = 1 /\ IsSome(req[p].user)
    /\ req[p].log[2] = [call |-> "user.findUnique", err |-> "none"]
    /\ Cardinality(users) = 2

\* C24 as stated: whenever the create, update or delete handler runs on a request with no
\* acting identity, that step answers 500 'Internal server error' and no table changes.
C24_NoIdentityAlways500 ==
  [][\A p \in Procs :
       (req[p].op \in Routes /\ req[p].pc = "handler" /\ req[p].user = None /\ Stepped(p)) =>
         /\ Refused(req'[p], 500, "Internal server error")
         /\ UNCHANGED <<users, posts, nextPostId>>]_vars

\* C24: when the delete handler, or the create or update handler with a body that passes
\* its validation, runs on a request with no acting identity, that step answers 500
\* 'Internal server error', the request has made no call on the posts table, and no post
\* is inserted, changed or removed.  With a body that fails validation the create and
\* update handlers answer 400 before they look at the identity; still no table changes.
BodyPasses(r) ==
  /\ r.op = "createPost" => ~IsSome(CreateError(r.postBody))
  /\ r.op = "updatePost" => ~InvalidUpdate(r.postBody)

PostCalls == {"posts.findUnique", "posts.create", "posts.update", "posts.delete"}

C24_NoIdentityIs500 ==
  [][\A p \in Procs :
       (req[p].op \in Routes /\ req[p].pc = "handler" /\ req[p].user = None /\ Stepped(p)) =>
         /\ BodyPasses(req[p]) => Refused(req'[p], 500, "Internal server error")
         /\ ~BodyPasses(req[p]) => Answered(req'[p]) /\ Code(req'[p]) = 400
         /\ Calls(req'[p]) \cap PostCalls = {}
         /\ UNCHANGED <<users, posts, nextPostId>>]_vars

C24_Witness ==
  \E p \in Procs :
    /\ req[p].op = "deletePost" /\ req[p].user = None
    /\ Refused(req[p], 500, "Internal server error")
    /\ \E x \in posts : x.id = req[p].id

\* C25: no step removes or alters an account: every account row is still there, field for
\* field, after the step.  A step that changes the accounts table adds exactly one row,
\* with an id and an email no account had, and is the step in which a register request
\* is answered 201 with that row's id, email and creation time.
C25_AccountsOnlyGrow ==
  [][/\ users \subseteq users'
     /\ users' # users =>
          \E p \in Procs, row \in users' :
            /\ users' = users \cup {row}
            /\ \A u \in users : u.id # row.id /\ u.email # row.email
            /\ req[p].op = "register" /\ ~Answered(req[p])
            /\ Register201(req'[p]) /\ Len(req'[p].out) = 1
            /\ req'[p].out[1].data =
                 Some([user |-> [id |-> row.id, email |-> row.email,
                                 createdAt |-> row.createdAt]])
            /\ row.email = req[p].body.email[1]
            /\ \A q \in Procs \ {p} : req'[q] = req[q]]_vars

C25_Witness ==
  /\ Account(1, "a@x.com") \in users
  /\ \E p \in Procs, row \in users :
       /\ row.id # 1 /\ row.email = "b@x.com"
       /\ Register201(req[p]) /\ req[p].body.email = Some("b@x.com")
       /\ req[p].out[1].data[1].user.id = row.id

\* C26: no stored post has the empty string as its title.  A create request whose body
\* has no title or the title '' never issues the insert, and its handler answers 400; an
\* update request whose body has the title '' never issues the write, and its handler
\* answers 400.  (The content of a stored post may be ''.)
NoTitle(b) == ~IsSome(b.title) \/ b.title = Some("")

C26_TitleNeverEmpty ==
  /\ \A x \in posts : x.title # ""
  /\ \A p \in Procs :
       /\ (req[p].op = "createPost" /\ NoTitle(req[p].postBody)) =>
            /\ "posts.create" \notin Calls(req[p]) /\ req[p].pc # "postWrite"
            /\ (Answered(req[p]) /\ req[p].nextCalls = 1) => Code(req[p]) = 400
       /\ (req[p].op = "updatePost" /\ req[p].postBody.title = Some("")) =>
            /\ "posts.update" \notin Calls(req[p]) /\ req[p].pc # "postWrite"
            /\ (Answered(req[p]) /\ req[p].nextCalls = 1) => Code(req[p]) = 400

C26_Witness ==
  \E p \in Procs, x \in posts :
    /\ x.content = "" /\ x.title = "t2" /\ x.id = req[p].id
    /\ req[p].op = "updatePost" /\ req[p].postBody.title = Some("")
    /\ req[p].nextCalls = 1 /\ Answered(req[p]) /\ Code(req[p]) = 400

\* C27: a handler that has been invoked and has not answered sends no response before it
\* is done, and it eventually is done; once done it has sent exactly one response, on
\* every path: validation failure, early return, success and caught failure.
HandlerNames ==
  {"register", "login", "getAllPosts", "getPostById", "createPost", "updatePost", "deletePost"}

Pending(r) == r.op \in HandlerNames /\ r.pc \notin {"idle", "done"}

Finished(r) == r.op \in HandlerNames /\ r.pc = "done"

C27_ExactlyOneResponse ==
  /\ [](\A p \in Procs : (Pending(req[p]) => Len(req[p].out) = 0)
                           /\ (Finished(req[p]) => Len(req[p].out) = 1))
  /\ \A p \in Procs : Pending(req[p]) ~> (Finished(req[p]) /\ Len(req[p].out) = 1)

C27_Witness ==
  \E p \in Procs :
    /\ req[p].op = "updatePost" /\ Finished(req[p]) /\ Len(req[p].out) = 1
    /\ Len(req[p].log) = 3 /\ LastCall(req[p]) = [call |-> "posts.update", err |-> "fault"]
    /\ Code(req[p]) = 500

\* C28: a step in which a request is answered 400, 401, 403, 404, 409 or 500 leaves the
\* accounts table and the posts table as they are, and a step in which a request moves on
\* without answering leaves them as they are too; so a request answered with an error
\* status has changed neither table at any of its steps.  A step that changes a table is
\* one in which a request is answered 200 or 201.
ErrorCodes == {400, 401, 403, 404, 409, 500}

C28_ErrorsChangeNothing ==
  [][\A p \in Procs :
       Stepped(p) =>
         /\ Len(req'[p].out) <= 1
         /\ (Answered(req'[p]) /\ Code(req'[p]) \in ErrorCodes) =>
              users' = users /\ posts' = posts
         /\ ~Answered(req'[p]) => users' = users /\ posts' = posts
         /\ (users' # users \/ posts' # posts) =>
              /\ Answered(req'[p]) /\ Code(req'[p]) \in {200, 201}
              /\ req'[p].out[1].status = "success"]_vars

C28_Witness ==
  \E p \in Procs, x \in posts :
    /\ req[p].op = "createPost" /\ Answered(req[p]) /\ Code(req[p]) = 500
    /\ LastCall(req[p]) = [call |-> "posts.create", err |-> "fault"]
    /\ posts = {x} /\ nextPostId = 2 /\ Cardinality(users) = 2

\* C29: an update or a delete that passed its checks and whose write finds the post gone
\* is answered 500 'Internal server error' (not 404), its write having been rejected for
\* the missing row unless the database failed, and the posts table stays as it is.  A post
\* leaves the table only in the step in which a delete of its id is answered 200; ids are
\* given once, so a removed post never comes back, and no two requests hold a 200 for the
\* delete of the same id.
PostIdsOf(rows) == {x.id : x \in rows}

C29_DeleteRaces ==
  /\ [](\A p \in Procs, q \in Procs :
          (Deleted200(req[p]) /\ Deleted200(req[q]) /\ req[p].id = req[q].id) => p = q)
  /\ [](\A x \in posts : x.id < nextPostId)
  /\ [][/\ nextPostId' >= nextPostId
        /\ PostIdsOf(posts') \subseteq PostIdsOf(posts) \cup {nextPostId}
        /\ \A x \in posts : x.id \notin PostIdsOf(posts') =>
             \E p \in Procs : /\ req[p].op = "deletePost" /\ req[p].pc = "postWrite"
                               /\ req[p].id = x.id
                               /\ Deleted200(req'[p])
                               /\ posts' = posts \ {x}
        /\ \A p \in Procs :
             ( /\ req[p].op \in {"updatePost", "deletePost"} /\ req[p].pc = "postWrite"
               /\ Stepped(p) /\ PostById(req[p].id) = {} ) =>
               /\ Refused(req'[p], 500, "Internal server error")
               /\ LastCall(req'[p]).call =
                    (IF req[p].op = "updatePost" THEN "posts.update" ELSE "posts.delete")
               /\ LastCall(req'[p]).err \in {"P2025", "fault"}
               /\ posts' = posts]_vars

C29_Witness ==
  \E p \in Procs, q \in Procs :
    /\ Deleted200(req[p])
    /\ req[q].op = "updatePost" /\ req[q].id = req[p].id /\ req[q].user = req[p].user
    /\ Refused(req[q], 500, "Internal server error")
    /\ LastCall(req[q]) = [call |-> "posts.update", err |-> "P2025"]
    /\ [call |-> "posts.findUnique", err |-> "none"] \in Range(req[q].log)
    /\ \A x \in posts : x.id # req[p].id

\* C30: the authorId of every stored post is the id of a stored account.  The identity a
\* guarded request carries is the {id, email} of a stored account, a post enters the
\* table with the id of the identity its create request carries, and no write on the
\* posts table has been rejected by the foreign key.
C30_AuthorsExist ==
  /\ [](/\ \A x \in posts : \E u \in users : u.id = x.authorId
        /\ \A p \in Procs :
             /\ (req[p].op \in Routes /\ IsSome(req[p].user)) =>
                  \E u \in users : req[p].user[1] = [id |-> u.id, email |-> u.email]
             /\ \A e \in Range(req[p].log) : e.err # "P2003")
  /\ [][\A y \in posts' : (\A x \in posts : x.id # y.id) =>
          \E p \in Procs : /\ req[p].op = "createPost" /\ req[p].pc = "postWrite"
                            /\ req[p].nextCalls = 1
                            /\ y.authorId = req[p].user[1].id
                            /\ Answered(req'[p]) /\ Code(req'[p]) = 201]_vars

C30_Witness ==
  \E x \in posts, u \in users :
    /\ x.authorId = u.id /\ u.id = 2 /\ u.email = "b@x.com"
    /\ \E p \in Procs : /\ req[p].op = "createPost" /\ Code(req[p]) = 201
                          /\ Answered(req[p]) /\ req[p].user = Some([id |-> 2, email |-> "b@x.com"])
====
